---- MODULE Spec2Model ----
(***************************************************************************)
(* Stock Data Visualizer (src/app.py): the date utilities, the series      *)
(* normalizer, the range filter, the label thinner, the document assembler *)
(* and the control flow of main.                                           *)
(*                                                                         *)
(* A Python str is a sequence of one-character strings, so that parsing,   *)
(* formatting and the lexicographic comparison of main act on characters.  *)
(* A call that can raise returns Ok(v) or Raise(e); out is what it printed.*)
(***************************************************************************)
EXTENDS Integers, Sequences, FiniteSets, TLC

\* A run of main: pc is its place, stock_symbol .. end_date the five inputs, net the
\* response requests.get gave, fn, data, series_key, rows, range, chart, html_text the
\* values computed on the way, events what the run did to the outside (print, GET,
\* write, open), in order.  A call of one function alone: arg and ret.
VARIABLES pc, stock_symbol, chart_type, time_series, start_date, end_date,
          net, fn, data, series_key, rows, range, chart, html_text, events,
          arg, ret

vars == <<pc, stock_symbol, chart_type, time_series, start_date, end_date,
          net, fn, data, series_key, rows, range, chart, html_text, events, arg, ret>>

mainVars == <<pc, stock_symbol, chart_type, time_series, start_date, end_date,
              net, fn, data, series_key, rows, range, chart, html_text, events>>

(***************************************************************************)
(* Results of calls                                                        *)
(***************************************************************************)
Ok(v) == [exc |-> "", val |-> <<v>>, out |-> <<>>]

Raise(e) == [exc |-> e, val |-> <<>>, out |-> <<>>]

\* print(msg); sys.exit(1)
Exit(msg) == [exc |-> "SystemExit", val |-> <<>>, out |-> <<msg>>]

IsOk(r) == r.exc = ""

Val(r) == r.val[1]

(***************************************************************************)
(* Characters                                                              *)
(***************************************************************************)
Digits == {"0", "1", "2", "3", "4", "5", "6", "7", "8", "9"}

\* The code point of a character, which is what Python's str comparison uses.
Ord(c) ==
    CASE c = " " -> 32
      [] c = "-" -> 45
      [] c = "." -> 46
      [] c = "/" -> 47
      [] c = "0" -> 48
      [] c = "1" -> 49
      [] c = "2" -> 50
      [] c = "3" -> 51
      [] c = "4" -> 52
      [] c = "5" -> 53
      [] c = "6" -> 54
      [] c = "7" -> 55
      [] c = "8" -> 56
      [] c = "9" -> 57
      [] c = "x" -> 120

DigitVal(c) == Ord(c) - 48

DigitChar(n) ==
    CASE n = 0 -> "0" [] n = 1 -> "1" [] n = 2 -> "2" [] n = 3 -> "3"
      [] n = 4 -> "4" [] n = 5 -> "5" [] n = 6 -> "6" [] n = 7 -> "7"
      [] n = 8 -> "8" [] n = 9 -> "9"

\* s > t on Python strings: lexicographic by code point, a proper prefix is smaller.
RECURSIVE StrGt(_, _)
StrGt(s, t) ==
    IF s = <<>> THEN FALSE
    ELSE IF t = <<>> THEN TRUE
    ELSE IF Ord(Head(s)) # Ord(Head(t)) THEN Ord(Head(s)) > Ord(Head(t))
    ELSE StrGt(Tail(s), Tail(t))

(***************************************************************************)
(* Calendar dates <<year, month, day>>                                     *)
(***************************************************************************)
IsLeap(y) == y % 4 = 0 /\ (y % 100 # 0 \/ y % 400 = 0)

DaysInMonth(y, m) ==
    IF m = 2 THEN (IF IsLeap(y) THEN 29 ELSE 28)
    ELSE IF m \in {4, 6, 9, 11} THEN 30 ELSE 31

\* a < b on tuples of integers of one length, as Python orders dates and datetimes.
RECURSIVE TupleLt(_, _)
TupleLt(a, b) ==
    IF a = <<>> \/ b = <<>> THEN FALSE
    ELSE IF Head(a) # Head(b) THEN Head(a) < Head(b)
    ELSE TupleLt(Tail(a), Tail(b))

DateLe(a, b) == ~TupleLt(b, a)

(***************************************************************************)
(* datetime.strptime(s, "%Y-%m-%d"): the format compiles to the regular    *)
(* expression                                                              *)
(*   (\d\d\d\d)-(1[0-2]|0[1-9]|[1-9])-(3[0-1]|[1-2]\d|0[1-9]|[1-9]| [1-9]) *)
(* matched at the start of s; text left after the match, or a date the     *)
(* calendar does not have, is a ValueError.                                *)
(***************************************************************************)
At(s, i) == IF i >= 1 /\ i <= Len(s) THEN s[i] ELSE ""

\* The day alternatives in the regex's order, tried at position i: the first that
\* matches gives <<day, position after it>>; <<>> when none does.
MatchDay(s, i) ==
    LET a == At(s, i)
        b == At(s, i + 1)
    IN  IF a = "3" /\ b \in {"0", "1"} THEN <<30 + DigitVal(b), i + 2>>
        ELSE IF a \in {"1", "2"} /\ b \in Digits
            THEN <<10 * DigitVal(a) + DigitVal(b), i + 2>>
        ELSE IF a = "0" /\ b \in Digits \ {"0"} THEN <<DigitVal(b), i + 2>>
        ELSE IF a \in Digits \ {"0"} THEN <<DigitVal(a), i + 1>>
        ELSE IF a = " " /\ b \in Digits \ {"0"} THEN <<DigitVal(b), i + 2>>
        ELSE <<>>

\* The rest of the regex after a month candidate ending before position i.
MatchAfterMonth(s, i) == IF At(s, i) = "-" THEN MatchDay(s, i + 1) ELSE <<>>

\* The month alternatives in the regex's order, with backtracking: an alternative
\* stands only when the rest of the expression matches after it.
\* <<month, day, position after the match>>, or <<>>.
MatchMonthDay(s, i) ==
    LET a == At(s, i)
        b == At(s, i + 1)
        two == IF a = "1" /\ b \in {"0", "1", "2"} THEN <<10 + DigitVal(b)>>
               ELSE IF a = "0" /\ b \in Digits \ {"0"} THEN <<DigitVal(b)>>
               ELSE <<>>
        one == IF a \in Digits \ {"0"} THEN <<DigitVal(a)>> ELSE <<>>
        r2 == IF two # <<>> THEN MatchAfterMonth(s, i + 2) ELSE <<>>
        r1 == IF one # <<>> THEN MatchAfterMonth(s, i + 1) ELSE <<>>
    IN  IF r2 # <<>> THEN <<two[1], r2[1], r2[2]>>
        ELSE IF r1 # <<>> THEN <<one[1], r1[1], r1[2]>>
        ELSE <<>>

strptime(s) ==
    IF ~(\A i \in 1..4 : At(s, i) \in Digits) \/ At(s, 5) # "-"
    THEN Raise("ValueError")
    ELSE LET y == 1000 * DigitVal(s[1]) + 100 * DigitVal(s[2])
                  + 10 * DigitVal(s[3]) + DigitVal(s[4])
             md == MatchMonthDay(s, 6)
         IN  IF md = <<>> THEN Raise("ValueError")
             ELSE IF md[3] # Len(s) + 1 THEN Raise("ValueError")
             ELSE IF y < 1 \/ md[2] > DaysInMonth(y, md[1]) THEN Raise("ValueError")
             ELSE Ok(<<y, md[1], md[2], 0, 0>>)

\* datetime.date(): a datetime is <<year, month, day, hour, minute>>.
DateOf(dt) == <<dt[1], dt[2], dt[3]>>

validate_date(s) == IsOk(strptime(s))

to_date(s) ==
    LET r == strptime(s)
    IN  IF IsOk(r) THEN Ok(DateOf(Val(r))) ELSE r


(***************************************************************************)
(* JSON values and dicts.  A value is [t, s, n]: a string (s, its          *)
(* characters), a number (n, in hundredths), null or an array.  A dict is  *)
(* the sequence of its <<key, value>> items in insertion order, one item a *)
(* key.                                                                    *)
(***************************************************************************)
JStr(s) == [t |-> "str", s |-> s, n |-> 0]

JNum(n) == [t |-> "num", s |-> <<>>, n |-> n]

JNull == [t |-> "null", s |-> <<>>, n |-> 0]

JArr == [t |-> "arr", s |-> <<>>, n |-> 0]

DictHas(d, k) == \E i \in 1..Len(d) : d[i][1] = k

\* d[k], for a key d has.
DictAt(d, k) == d[CHOOSE i \in 1..Len(d) : d[i][1] = k][2]

\* d.get(k, None)
DictGet(d, k) == IF DictHas(d, k) THEN DictAt(d, k) ELSE JNull

RECURSIVE DigitsVal(_)
DigitsVal(s) ==
    IF s = <<>> THEN 0
    ELSE 10 * DigitsVal(SubSeq(s, 1, Len(s) - 1)) + DigitVal(s[Len(s)])

\* float(s) of a str of digits, "-", "." and letters: an optional sign, then digits
\* with at most one point and at least one digit.  The value is kept in hundredths
\* (two places after the point).
ParseFloat(s) ==
    LET neg == s # <<>> /\ Head(s) = "-"
        body == IF neg THEN Tail(s) ELSE s
        dots == {i \in 1..Len(body) : body[i] = "."}
        dot == IF dots = {} THEN Len(body) + 1 ELSE CHOOSE i \in dots : TRUE
        ip == SubSeq(body, 1, dot - 1)
        fp == SubSeq(body, dot + 1, Len(body))
        fp2 == SubSeq(fp \o <<"0", "0">>, 1, 2)
    IN  IF \/ Cardinality(dots) > 1
           \/ Len(ip) + Len(fp) = 0
           \/ \E i \in 1..Len(ip) : ip[i] \notin Digits
           \/ \E i \in 1..Len(fp) : fp[i] \notin Digits
        THEN Raise("ValueError")
        ELSE Ok((IF neg THEN -1 ELSE 1) * (100 * DigitsVal(ip) + DigitsVal(fp2)))

\* float(x) of a JSON value that is not None.
float(x) ==
    IF x.t = "str" THEN ParseFloat(x.s)
    ELSE IF x.t = "num" THEN Ok(x.n)
    ELSE Raise("TypeError")

(***************************************************************************)
(* Granularity: function_for, series_key_for                               *)
(***************************************************************************)
DAILY == <<"D", "A", "I", "L", "Y">>

WEEKLY == <<"W", "E", "E", "K", "L", "Y">>

MONTHLY == <<"M", "O", "N", "T", "H", "L", "Y">>

function_for(ts) ==
    IF ts = DAILY THEN Ok("TIME_SERIES_DAILY")
    ELSE IF ts = WEEKLY THEN Ok("TIME_SERIES_WEEKLY")
    ELSE IF ts = MONTHLY THEN Ok("TIME_SERIES_MONTHLY")
    ELSE Raise("ValueError")

series_key_for_swapped(f) ==
    IF f = "TIME_SERIES_DAILY" THEN Ok("Time Series (Daily)")
    ELSE IF f = "TIME_SERIES_WEEKLY" THEN Ok("Monthly Time Series")
    ELSE IF f = "TIME_SERIES_MONTHLY" THEN Ok("Weekly Time Series")
    ELSE Raise("ValueError")

series_key_for(f) ==
    IF f = "TIME_SERIES_DAILY" THEN Ok("Time Series (Daily)")
    ELSE IF f = "TIME_SERIES_WEEKLY" THEN Ok("Weekly Time Series")
    ELSE IF f = "TIME_SERIES_MONTHLY" THEN Ok("Monthly Time Series")
    ELSE Raise("ValueError")

(***************************************************************************)
(* parse_close_series.  A row is <<ts, close>>, ts a datetime.             *)
(***************************************************************************)
\* list.sort(key=lambda x: x[0]): a stable sort, here by insertion.
RECURSIVE InsertRow(_, _)
InsertRow(sorted, r) ==
    IF sorted = <<>> THEN <<r>>
    ELSE IF TupleLt(r[1], Head(sorted)[1]) THEN <<r>> \o sorted
    ELSE <<Head(sorted)>> \o InsertRow(Tail(sorted), r)

SortRows_none(rs) == rs

RECURSIVE SortRows(_)
SortRows(rs) ==
    IF rs = <<>> THEN <<>>
    ELSE InsertRow(SortRows(SubSeq(rs, 1, Len(rs) - 1)), rs[Len(rs)])

\* The loop over data[key].items(): the rows appended so far are acc.  An entry
\* whose date key does not parse, or whose close float() rejects with a TypeError,
\* raises out of the loop.
RECURSIVE CollectRows(_, _)
CollectRows(items, acc) ==
    IF items = <<>> THEN Ok(acc)
    ELSE LET ts == strptime(Head(items)[1])
             close_str == DictGet(Head(items)[2], "4. close")
             close_val == float(close_str)
         IN  IF ~IsOk(ts) THEN ts
             ELSE IF close_str = JNull THEN CollectRows(Tail(items), acc)
             ELSE IF IsOk(close_val)
                 THEN CollectRows(Tail(items), Append(acc, <<Val(ts), Val(close_val)>>))
             ELSE IF close_val.exc = "ValueError" THEN CollectRows(Tail(items), acc)
             ELSE close_val

parse_close_series(d, f) ==
    LET key == series_key_for(f)
    IN  IF ~IsOk(key) THEN key
        ELSE IF ~DictHas(d, Val(key)) THEN Exit("Unexpected API response. missing key:")
        ELSE LET rs == CollectRows(DictAt(d, Val(key)), <<>>)
             IN  IF IsOk(rs) THEN Ok(SortRows(Val(rs))) ELSE rs

(***************************************************************************)
(* filter_range                                                            *)
(***************************************************************************)
RECURSIVE filter_range_end_exclusive(_, _, _)
filter_range_end_exclusive(rs, start_d, end_d) ==
    IF rs = <<>> THEN <<>>
    ELSE (IF DateLe(start_d, DateOf(Head(rs)[1])) /\ TupleLt(DateOf(Head(rs)[1]), end_d)
          THEN <<Head(rs)>> ELSE <<>>)
         \o filter_range_end_exclusive(Tail(rs), start_d, end_d)

RECURSIVE filter_range(_, _, _)
filter_range(rs, start_d, end_d) ==
    IF rs = <<>> THEN <<>>
    ELSE (IF DateLe(start_d, DateOf(Head(rs)[1])) /\ DateLe(DateOf(Head(rs)[1]), end_d)
          THEN <<Head(rs)>> ELSE <<>>)
         \o filter_range(Tail(rs), start_d, end_d)

(***************************************************************************)
(* thin_labels                                                             *)
(***************************************************************************)
\* Python's None among labels, which are strs.
None == <<"None">>

DefaultMaxLabels == 12

Max(a, b) == IF a >= b THEN a ELSE b

thin_labels_last_dropped(labels, max_labels) ==
    LET n == Len(labels)
        step == Max(1, n \div max_labels)
    IN  IF n <= max_labels THEN labels
        ELSE [i \in 1..n |-> IF (i - 1) % step = 0 THEN labels[i] ELSE None]

thin_labels_all_kept(labels, max_labels) == labels

\* enumerate counts from 0, a sequence from 1: index i is position i + 1.
thin_labels(labels, max_labels) ==
    LET n == Len(labels)
        step == Max(1, n \div max_labels)
    IN  IF n <= max_labels THEN labels
        ELSE [i \in 1..n |->
                IF (i - 1) % step = 0 \/ i - 1 = n - 1 THEN labels[i] ELSE None]

(***************************************************************************)
(* wrap_html.  Text is a sequence of tokens: a character, a run of plain   *)
(* characters, a tag, or CTRL, a control character that XML text cannot    *)
(* hold.  A node is [tag, text, kids]; the tag of a text node is "#text".  *)
(* The white space that pretty printing adds is left out.                  *)
(***************************************************************************)
OpenTags == {"<svg>", "<g>"}

CloseTags == {"</svg>", "</g>"}

EmptyTags == {"<g/>"}

TagName(tok) ==
    CASE tok \in {"<svg>", "</svg>"} -> "svg"
      [] tok \in {"<g>", "</g>", "<g/>"} -> "g"

Element(tag, kids) == [tag |-> tag, text |-> <<>>, kids |-> kids]

TextNode(text) == [tag |-> "#text", text |-> text, kids |-> <<>>]

\* What lxml asks of a str assigned to .text: no NULL bytes or control characters.
XmlCompatible(text) == \A i \in 1..Len(text) : text[i] # "CTRL"

\* A finished element goes to its parent's children, or becomes the root.
CloseInto(stack, root, el) ==
    IF stack = <<>>
    THEN [stack |-> <<>>, root |-> Append(root, el)]
    ELSE [stack |-> SubSeq(stack, 1, Len(stack) - 1)
                    \o <<Element(stack[Len(stack)].tag,
                                 Append(stack[Len(stack)].kids, el))>>,
          root |-> root]

\* The parser's run over the tokens left: stack holds the open elements, root the
\* document element once it is closed.
RECURSIVE ParseTokens(_, _, _)
ParseTokens(toks, stack, root) ==
    IF toks = <<>>
    THEN (IF stack = <<>> /\ Len(root) = 1 THEN Ok(root[1]) ELSE Raise("XMLSyntaxError"))
    ELSE LET tok == Head(toks)
             rest == Tail(toks)
         IN  IF tok \in OpenTags
             THEN (IF stack = <<>> /\ root # <<>> THEN Raise("XMLSyntaxError")
                   ELSE ParseTokens(rest, Append(stack, Element(TagName(tok), <<>>)), root))
             ELSE IF tok \in EmptyTags
             THEN (IF stack = <<>> /\ root # <<>> THEN Raise("XMLSyntaxError")
                   ELSE LET c == CloseInto(stack, root, Element(TagName(tok), <<>>))
                        IN  ParseTokens(rest, c.stack, c.root))
             ELSE IF tok \in CloseTags
             THEN (IF stack = <<>> \/ stack[Len(stack)].tag # TagName(tok)
                   THEN Raise("XMLSyntaxError")
                   ELSE LET c == CloseInto(SubSeq(stack, 1, Len(stack) - 1), root,
                                           stack[Len(stack)])
                        IN  ParseTokens(rest, c.stack, c.root))
             ELSE IF tok = "CTRL" \/ stack = <<>> THEN Raise("XMLSyntaxError")
             ELSE ParseTokens(rest,
                              SubSeq(stack, 1, Len(stack) - 1)
                                \o <<Element(stack[Len(stack)].tag,
                                             Append(stack[Len(stack)].kids,
                                                    TextNode(<<tok>>)))>>,
                              root)

\* etree.fromstring(svg_text.encode("utf-8"))
fromstring(text) == ParseTokens(text, <<>>, <<>>)

\* Text as serialized: markup characters are escaped.
EscapeToken(tok) ==
    CASE tok = "<svg>" -> "&lt;svg&gt;"
      [] tok = "</svg>" -> "&lt;/svg&gt;"
      [] tok = "<g>" -> "&lt;g&gt;"
      [] tok = "</g>" -> "&lt;/g&gt;"
      [] tok = "<g/>" -> "&lt;g/&gt;"
      [] tok = "<" -> "&lt;"
      [] OTHER -> tok

Escape(text) == [i \in 1..Len(text) |-> EscapeToken(text[i])]

\* etree.tostring: an element without children is written as an empty tag.
RECURSIVE Serialize(_)
RECURSIVE SerializeAll(_)
Serialize(node) ==
    IF node.tag = "#text" THEN Escape(node.text)
    ELSE IF node.kids = <<>> THEN <<"<" \o node.tag \o "/>">>
    ELSE <<"<" \o node.tag \o ">">> \o SerializeAll(node.kids) \o <<"</" \o node.tag \o ">">>

SerializeAll(nodes) ==
    IF nodes = <<>> THEN <<>> ELSE Serialize(Head(nodes)) \o SerializeAll(Tail(nodes))

StyleText == <<"body{font-family:Arial,Helvetica,sans-serif;margin:24px;} .chart{max-width:1000px;}">>

Document(page_title, chart_kids) ==
    Element("html",
        << Element("head",
              << Element("meta", <<>>),
                 Element("title", <<TextNode(page_title)>>),
                 Element("style", <<TextNode(StyleText)>>) >>),
           Element("body",
              << Element("h1", <<TextNode(page_title)>>),
                 Element("div", chart_kids) >>) >>)

EmbedErrorNote == <<"(SVG embed error: ", "XMLSyntaxError", ")", "\n\n">>

wrap_html(svg_text, page_title) ==
    IF ~XmlCompatible(page_title) THEN Raise("ValueError")
    ELSE LET svg_el == fromstring(svg_text)
         IN  IF IsOk(svg_el)
             THEN Ok(Serialize(Document(page_title, <<Val(svg_el)>>)))
             ELSE IF ~XmlCompatible(EmbedErrorNote \o svg_text) THEN Raise("ValueError")
             ELSE Ok(Serialize(Document(page_title,
                    <<Element("pre", <<TextNode(EmbedErrorNote \o svg_text)>>)>>)))

(***************************************************************************)
(* str.upper, str.lower, str.title, strftime                               *)
(***************************************************************************)
LowerCase ==
    << "a", "b", "c", "d", "e", "f", "g", "h", "i", "j", "k", "l", "m",
       "n", "o", "p", "q", "r", "s", "t", "u", "v", "w", "x", "y", "z" >>

UpperCase ==
    << "A", "B", "C", "D", "E", "F", "G", "H", "I", "J", "K", "L", "M",
       "N", "O", "P", "Q", "R", "S", "T", "U", "V", "W", "X", "Y", "Z" >>

UpperChar(c) ==
    IF \E i \in 1..26 : LowerCase[i] = c
    THEN UpperCase[CHOOSE i \in 1..26 : LowerCase[i] = c] ELSE c

LowerChar(c) ==
    IF \E i \in 1..26 : UpperCase[i] = c
    THEN LowerCase[CHOOSE i \in 1..26 : UpperCase[i] = c] ELSE c

upper(s) == [i \in 1..Len(s) |-> UpperChar(s[i])]

lower(s) == [i \in 1..Len(s) |-> LowerChar(s[i])]

\* str.title() of one word.
title(s) == [i \in 1..Len(s) |-> IF i = 1 THEN UpperChar(s[i]) ELSE LowerChar(s[i])]

RECURSIVE DecimalText(_)
DecimalText(n) ==
    IF n < 10 THEN <<DigitChar(n)>> ELSE DecimalText(n \div 10) \o <<DigitChar(n % 10)>>

TwoDigits(n) == <<DigitChar(n \div 10), DigitChar(n % 10)>>

\* d.strftime("%Y-%m-%d")
strftime(d) == DecimalText(d[1]) \o <<"-">> \o TwoDigits(d[2]) \o <<"-">> \o TwoDigits(d[3])

(***************************************************************************)
(* fetch_data, on the response r that requests.get gave: r.raised when the *)
(* request itself failed, r.status, r.json_ok when the body is JSON,       *)
(* r.body the dict it holds.                                               *)
(***************************************************************************)
fetch_data_note_ignored(r) ==
    IF r.raised THEN Raise("RequestException")
    ELSE IF r.status # 200 THEN Exit("Error fetching data:")
    ELSE IF ~r.json_ok THEN Raise("JSONDecodeError")
    ELSE IF DictHas(r.body, "Error Message") THEN Exit("API Error:")
    ELSE Ok(r.body)

fetch_data(r) ==
    IF r.raised THEN Raise("RequestException")
    ELSE IF r.status # 200 THEN Exit("Error fetching data:")
    ELSE IF ~r.json_ok THEN Raise("JSONDecodeError")
    ELSE IF DictHas(r.body, "Error Message") THEN Exit("API Error:")
    ELSE IF DictHas(r.body, "Note")
        THEN Exit("API Note (rate limited). Please wait ~1 minute and try again.")
    ELSE Ok(r.body)

(***************************************************************************)
(* The state outside a run of main, and outside a call of one function     *)
(***************************************************************************)
MainIdle ==
    /\ pc = "idle"
    /\ stock_symbol = <<>> /\ chart_type = <<>> /\ time_series = <<>>
    /\ start_date = <<>> /\ end_date = <<>>
    /\ net = <<>> /\ fn = <<>> /\ data = <<>> /\ series_key = <<>> /\ rows = <<>>
    /\ range = <<>>
    /\ chart = <<>> /\ html_text = <<>> /\ events = <<>>

(***************************************************************************)
(* Date utilities, called on date strings                                  *)
(***************************************************************************)
YearTexts ==
    { <<"2", "0", "1", "9">>, <<"2", "0", "2", "0">>, <<"1", "9", "0", "0">>,
      <<"0", "0", "0", "0">>, <<"2", "0", "x", "9">>, <<"2", "0", "2">> }

MonthTexts ==
    { <<"0", "1">>, <<"1">>, <<"0", "2">>, <<"2">>, <<"9">>, <<"1", "0">>,
      <<"1", "2">>, <<"1", "3">>, <<"0", "0">> }

DayTexts ==
    { <<"0", "1">>, <<"1">>, <<" ", "5">>, <<"2", "9">>, <<"3", "0">>,
      <<"3", "1">>, <<"3", "2">>, <<"0", "0">>, <<"5", "x">> }

Separators == { <<"-">>, <<"/">> }

DateStrings ==
    { y \o a \o m \o b \o d :
        y \in YearTexts, a \in Separators, m \in MonthTexts,
        b \in Separators, d \in DayTexts }

InitDate ==
    /\ MainIdle
    /\ arg \in [s : DateStrings]
    /\ ret = [valid |-> <<>>, date |-> <<>>]

Call_validate_date ==
    /\ pc = "idle" /\ ret.valid = <<>>
    /\ ret' = [ret EXCEPT !.valid = <<validate_date(arg.s)>>]
    /\ UNCHANGED <<mainVars, arg>>

Call_to_date ==
    /\ pc = "idle" /\ ret.date = <<>>
    /\ ret' = [ret EXCEPT !.date = <<to_date(arg.s)>>]
    /\ UNCHANGED <<mainVars, arg>>

NextDate == Call_validate_date \/ Call_to_date

SpecDate == InitDate /\ [][NextDate]_vars

\* What the format YYYY-MM-DD asks of a string: ten characters, digits and hyphens
\* in their places, and a date the calendar has.
StrictFormat(s) ==
    /\ Len(s) = 10
    /\ \A i \in {1, 2, 3, 4, 6, 7, 9, 10} : s[i] \in Digits
    /\ s[5] = "-" /\ s[8] = "-"
    /\ LET y == 1000 * DigitVal(s[1]) + 100 * DigitVal(s[2])
                + 10 * DigitVal(s[3]) + DigitVal(s[4])
           m == 10 * DigitVal(s[6]) + DigitVal(s[7])
           d == 10 * DigitVal(s[9]) + DigitVal(s[10])
       IN  y >= 1 /\ m \in 1..12 /\ d >= 1 /\ d <= DaysInMonth(y, m)

\* C4: validate_date(s) is true exactly for a 4-digit year, 2-digit month and
\* 2-digit day separated by hyphens that name a real calendar date, and to_date(s)
\* fails exactly when validate_date(s) is false.
C4_StrictFormatOnly ==
    /\ ret.valid # <<>> => (ret.valid[1] <=> StrictFormat(arg.s))
    /\ ret.date # <<>> => (~IsOk(ret.date[1]) <=> ~validate_date(arg.s))


(***************************************************************************)
(* parse_close_series, called on raw responses                             *)
(***************************************************************************)
MaxEntries == 3

EntryKeys ==
    { <<"2", "0", "2", "0", "-", "0", "1", "-", "0", "2">>,
      <<"2", "0", "2", "0", "-", "0", "1", "-", "0", "3">>,
      <<"2", "0", "2", "0", "-", "1", "-", "0", "2">>,
      <<"2", "0", "2", "0", "/", "0", "1", "/", "0", "5">> }

Open900 == <<"1. open", JStr(<<"9", ".", "0", "0">>)>>

EntryDicts ==
    { <<Open900>>,
      <<Open900, <<"4. close", JNull>>>>,
      <<Open900, <<"4. close", JStr(<<"1", "2", ".", "5", "0">>)>>>>,
      <<Open900, <<"4. close", JStr(<<"N", "/", "A">>)>>>>,
      <<Open900, <<"4. close", JNum(300)>>>>,
      <<Open900, <<"4. close", JArr>>>> }

\* The dicts of at most n items that map date keys to entries.
ItemSeqs(n) ==
    UNION { { s \in [1..k -> EntryKeys \X EntryDicts] :
                \A i, j \in 1..k : s[i][1] = s[j][1] => i = j } : k \in 0..n }

SeriesKeys == {"Time Series (Daily)", "Weekly Time Series", "Monthly Time Series"}

Functions ==
    {"TIME_SERIES_DAILY", "TIME_SERIES_WEEKLY", "TIME_SERIES_MONTHLY",
     "TIME_SERIES_INTRADAY"}

Response(key, items) == << <<"Meta Data", <<>>>>, <<key, items>> >>

SampleItems ==
    << <<<<"2", "0", "2", "0", "-", "0", "1", "-", "0", "3">>,
         <<Open900, <<"4. close", JStr(<<"1", "2", ".", "5", "0">>)>>>> >>,
       <<<<"2", "0", "2", "0", "-", "0", "1", "-", "0", "2">>,
         <<Open900, <<"4. close", JNum(300)>>>> >> >>

InitParse ==
    /\ MainIdle
    /\ arg \in { [data |-> Response("Time Series (Daily)", s), fn |-> "TIME_SERIES_DAILY"] :
                    s \in ItemSeqs(MaxEntries) }
          \cup { [data |-> Response(k, SampleItems), fn |-> f] :
                    k \in SeriesKeys, f \in Functions }
    /\ ret = <<>>

Call_parse_close_series ==
    /\ pc = "idle" /\ ret = <<>>
    /\ ret' = <<parse_close_series(arg.data, arg.fn)>>
    /\ UNCHANGED <<mainVars, arg>>

NextParse == Call_parse_close_series

SpecParse == InitParse /\ [][NextParse]_vars

Range(s) == {s[i] : i \in 1..Len(s)}

\* The entries the call looks at: those under the granularity's key.
ArgItems ==
    LET key == series_key_for(arg.fn)
    IN  IF IsOk(key) /\ DictHas(arg.data, Val(key)) THEN <<DictAt(arg.data, Val(key))>>
        ELSE <<>>

\* An entry's closing price is there and is a number.
NumericClose(v) ==
    LET c == DictGet(v, "4. close")
    IN  c.t = "num" \/ (c.t = "str" /\ IsOk(ParseFloat(c.s)))

\* C5: when the granularity key is present, an entry whose close is missing or not
\* a number is left out, an entry with a numeric close is kept, and no such entry
\* makes parse_close_series raise (the date keys being dates).
C5_MalformedCloseDropped ==
    (ret # <<>> /\ ArgItems # <<>>
        /\ \A i \in 1..Len(ArgItems[1]) : validate_date(ArgItems[1][i][1]))
    => /\ IsOk(ret[1])
       /\ Range(Val(ret[1])) =
            { <<Val(strptime(it[1])), Val(float(DictGet(it[2], "4. close")))>> :
                it \in {x \in Range(ArgItems[1]) : NumericClose(x[2])} }

\* C6: the series parse_close_series returns is ascending by date, and holds the
\* same points whatever the order of the response's entries.
C6_SortedWhateverOrder ==
    (ret # <<>> /\ IsOk(ret[1]))
    => /\ \A i \in 1..(Len(Val(ret[1])) - 1) :
            ~TupleLt(Val(ret[1])[i + 1][1], Val(ret[1])[i][1])
       /\ LET items == ArgItems[1]
              key == Val(series_key_for(arg.fn))
          IN  \A p \in Permutations(1..Len(items)) :
                LET other == parse_close_series(
                                Response(key, [i \in 1..Len(items) |-> items[p[i]]]),
                                arg.fn)
                IN  IsOk(other) /\ Range(Val(other)) = Range(Val(ret[1]))

\* A response whose entries come latest first was parsed into two or more rows.
C6_Witness ==
    /\ ret # <<>> /\ IsOk(ret[1]) /\ Len(Val(ret[1])) >= 2
    /\ ArgItems # <<>> /\ Len(ArgItems[1]) >= 2
    /\ TupleLt(Val(strptime(ArgItems[1][2][1])), Val(strptime(ArgItems[1][1][1])))


(***************************************************************************)
(* filter_range, called on series and ranges                               *)
(***************************************************************************)
MaxRows == 3

FilterPoints ==
    { <<2020, 1, 1, 0, 0>>, <<2020, 1, 2, 0, 0>>, <<2020, 1, 2, 12, 0>>,
      <<2020, 2, 1, 0, 0>> } \X {1250, 300}

RangeDates == { <<2019, 12, 31>>, <<2020, 1, 2>>, <<2020, 2, 1>> }

InitFilter ==
    /\ MainIdle
    /\ arg \in [rows : UNION {[1..k -> FilterPoints] : k \in 0..MaxRows},
                start_d : RangeDates, end_d : RangeDates]
    /\ ret = <<>>

Call_filter_range ==
    /\ pc = "idle" /\ ret = <<>>
    /\ ret' = <<filter_range(arg.rows, arg.start_d, arg.end_d)>>
    /\ UNCHANGED <<mainVars, arg>>

NextFilter == Call_filter_range

SpecFilter == InitFilter /\ [][NextFilter]_vars

\* The positions of arg.rows whose date lies in the range, both ends included.
InRangeAt ==
    { i \in 1..Len(arg.rows) :
        /\ ~TupleLt(DateOf(arg.rows[i][1]), arg.start_d)
        /\ ~TupleLt(arg.end_d, DateOf(arg.rows[i][1])) }

\* C7: filter_range returns exactly the points with start <= date <= end in their
\* original order, the empty series when there is none, and filtering its result
\* again with the same range changes nothing.
C7_InclusiveRangeIdempotent ==
    ret # <<>> =>
        /\ Len(ret[1]) = Cardinality(InRangeAt)
        /\ \A k \in 1..Len(ret[1]) :
             ret[1][k] = arg.rows[CHOOSE i \in InRangeAt :
                                    Cardinality({j \in InRangeAt : j <= i}) = k]
        /\ (InRangeAt = {} => ret[1] = <<>>)
        /\ filter_range(ret[1], arg.start_d, arg.end_d) = ret[1]

\* A series was cut down to some of its points, one of them on the end date itself.
C7_Witness ==
    /\ ret # <<>> /\ ret[1] # <<>> /\ Len(ret[1]) < Len(arg.rows)
    /\ \E k \in 1..Len(ret[1]) : DateOf(ret[1][k][1]) = arg.end_d /\ ret[1][k][1][4] = 12

(***************************************************************************)
(* thin_labels, called on label sequences                                  *)
(***************************************************************************)
MaxLabelCount == 30

MaxMaxLabels == 13

\* n distinct labels.
Labels(n) == [i \in 1..n |-> DecimalText(i)]

InitThin ==
    /\ MainIdle
    /\ arg \in [labels : {Labels(n) : n \in (0..MaxLabelCount) \cup {100}},
                max_labels : 1..MaxMaxLabels]
    /\ ret = <<>>

Call_thin_labels ==
    /\ pc = "idle" /\ ret = <<>>
    /\ ret' = <<thin_labels(arg.labels, arg.max_labels)>>
    /\ UNCHANGED <<mainVars, arg>>

NextThin == Call_thin_labels

SpecThin == InitThin /\ [][NextThin]_vars

\* C8: at most max_labels labels come back unchanged; otherwise, with
\* step = max(1, n // max_labels), position i keeps its label when i % step = 0 or
\* i = n - 1 and holds the placeholder elsewhere; 100 labels with max_labels 12
\* are thinned with step 8.
C8_ThinLabelsPositions ==
    ret # <<>> =>
        LET n == Len(arg.labels)
            q == n \div arg.max_labels
            step == IF q >= 1 THEN q ELSE 1
        IN  /\ n <= arg.max_labels => ret[1] = arg.labels
            /\ n > arg.max_labels =>
                 /\ Len(ret[1]) = n
                 /\ \A i \in 0..(n - 1) :
                      ret[1][i + 1] = IF i % step = 0 \/ i = n - 1
                                      THEN arg.labels[i + 1] ELSE None
                 /\ ret[1][1] = arg.labels[1] /\ ret[1][n] = arg.labels[n]
            /\ (n = 100 /\ arg.max_labels = 12) =>
                 {i \in 0..99 : ret[1][i + 1] # None} =
                    {8 * k : k \in 0..12} \cup {99}

\* More labels than max_labels were thinned, the last one not on a step.
C8_Witness ==
    /\ ret # <<>> /\ Len(arg.labels) > arg.max_labels
    /\ (Len(arg.labels) - 1) % (Len(arg.labels) \div arg.max_labels) # 0
    /\ \E i \in 1..Len(ret[1]) : ret[1][i] = None

Visible(labels) == Cardinality({i \in 1..Len(labels) : labels[i] # None})

\* C10, as claimed: thinning more than max_labels labels leaves at most max_labels
\* of them visible.
C10_AtMostMaxLabels ==
    (ret # <<>> /\ Len(arg.labels) > arg.max_labels)
    => Visible(ret[1]) <= arg.max_labels

\* C10, amended: thinning n > max_labels labels leaves at most ceil(n / step) + 1
\* of them visible, step = n // max_labels, which is at most 2 * max_labels.
C10_AtMostTwiceMaxLabels ==
    (ret # <<>> /\ Len(arg.labels) > arg.max_labels)
    => LET n == Len(arg.labels)
           step == n \div arg.max_labels
       IN  /\ Visible(ret[1]) <= (n + step - 1) \div step + 1
           /\ Visible(ret[1]) <= 2 * arg.max_labels

\* 100 labels thinned with max_labels 12 leave 14 visible.
C10_Witness ==
    /\ ret # <<>> /\ Len(arg.labels) = 100 /\ arg.max_labels = 12
    /\ Visible(ret[1]) = 14


(***************************************************************************)
(* wrap_html, called on image texts and page titles                        *)
(***************************************************************************)
MaxSvgTokens == 4

SvgTokens == {"<svg>", "</svg>", "<g>", "</g>", "<g/>", "t", "CTRL"}

PageTitles == { <<"I", "B", "M">>, <<"A", "<", "B">>, <<"A", "CTRL">> }

InitWrap ==
    /\ MainIdle
    /\ arg \in [svg_text : UNION {[1..k -> SvgTokens] : k \in 0..MaxSvgTokens},
                page_title : PageTitles]
    /\ ret = <<>>

Call_wrap_html ==
    /\ pc = "idle" /\ ret = <<>>
    /\ ret' = <<wrap_html(arg.svg_text, arg.page_title)>>
    /\ UNCHANGED <<mainVars, arg>>

NextWrap == Call_wrap_html

SpecWrap == InitWrap /\ [][NextWrap]_vars

Count(doc, tok) == Cardinality({i \in 1..Len(doc) : doc[i] = tok})

\* The document has one h1 and it holds the title.
OneHeading(doc, heading) ==
    /\ Count(doc, "<h1>") = 1
    /\ \E i \in 1..Len(doc) :
         /\ doc[i] = "<h1>"
         /\ SubSeq(doc, i + 1, i + Len(heading)) = Escape(heading)
         /\ At(doc, i + Len(heading) + 1) = "</h1>"

\* What the chart container holds: the tokens between <div> and </div>.
ChartContent(doc) ==
    LET open == {i \in 1..Len(doc) : doc[i] = "<div>"}
        close == {i \in 1..Len(doc) : doc[i] = "</div>"}
    IN  IF Cardinality(open) = 1 /\ Cardinality(close) = 1
        THEN LET i == CHOOSE x \in open : TRUE
                 j == CHOOSE x \in close : TRUE
             IN  <<SubSeq(doc, i + 1, j - 1)>>
        ELSE <<>>

\* The nesting depth after each token of a run of serialized markup.
DepthAfter(toks, k) ==
    Cardinality({i \in 1..k : toks[i] \in OpenTags}) -
    Cardinality({i \in 1..k : toks[i] \in CloseTags})

\* The run is one element: it opens an image element that closes at its very end.
OneImageNode(toks) ==
    /\ toks # <<>>
    /\ \/ Len(toks) = 1 /\ toks[1] \in EmptyTags \cup {"<svg/>"}
       \/ /\ toks[1] \in OpenTags
          /\ \A k \in 1..(Len(toks) - 1) : DepthAfter(toks, k) >= 1
          /\ DepthAfter(toks, Len(toks)) = 0

ImageTags == OpenTags \cup CloseTags \cup EmptyTags \cup {"<svg/>"}

\* C9: wrap_html never raises; a well-formed image text gives one heading with the
\* title, one embedded image node in the chart container and no preformatted
\* block; any other image text gives the heading and one preformatted block with
\* an error note followed by the original text, and no image node.
C9_AlwaysADocument ==
    ret # <<>> =>
        /\ IsOk(ret[1])
        /\ LET doc == Val(ret[1])
               content == ChartContent(doc)
           IN  /\ OneHeading(doc, arg.page_title)
               /\ content # <<>>
               /\ IF IsOk(fromstring(arg.svg_text))
                  THEN /\ OneImageNode(content[1])
                       /\ Count(doc, "<pre>") = 0
                  ELSE /\ content[1] = <<"<pre>">> \o EmbedErrorNote
                                          \o Escape(arg.svg_text) \o <<"</pre>">>
                       /\ \A i \in 1..Len(doc) : doc[i] \notin ImageTags

\* The same without "never raises": whenever wrap_html returns, what it returns is
\* as C9 says.
C9_WhenItReturns ==
    (ret # <<>> /\ IsOk(ret[1])) =>
        LET doc == Val(ret[1])
            content == ChartContent(doc)
        IN  /\ OneHeading(doc, arg.page_title)
            /\ content # <<>>
            /\ IF IsOk(fromstring(arg.svg_text))
               THEN /\ OneImageNode(content[1])
                    /\ Count(doc, "<pre>") = 0
               ELSE /\ content[1] = <<"<pre>">> \o EmbedErrorNote
                                       \o Escape(arg.svg_text) \o <<"</pre>">>
                    /\ \A i \in 1..Len(doc) : doc[i] \notin ImageTags


(***************************************************************************)
(* main                                                                    *)
(***************************************************************************)
SymbolInputs == { <<"i", "b", "m">>, <<"A", "CTRL">> }

ChartTypeInputs ==
    { <<"l", "i", "n", "e">>, <<"B", "a", "r">>, <<"p", "i", "e">> }

TimeSeriesInputs ==
    { <<"d", "a", "i", "l", "y">>, WEEKLY, <<"M", "o", "n", "t", "h", "l", "y">>,
      <<"h", "o", "u", "r", "l", "y">> }

DateInputs ==
    { <<"2", "0", "2", "0", "-", "0", "1", "-", "0", "1">>,
      <<"2", "0", "1", "9", "-", "0", "1", "-", "0", "1">>,
      <<"2", "0", "2", "0", "-", "1", "0", "-", "0", "1">>,
      <<"2", "0", "2", "0", "-", "9", "-", "0", "1">>,
      <<"2", "0", "2", "0", "-", "0", "2", "-", "3", "0">>,
      <<"2", "0", "2", "0", "/", "0", "1", "/", "0", "1">> }

NoResponse == [raised |-> FALSE, status |-> 0, json_ok |-> FALSE, body |-> <<>>]

Http(status, json_ok, body) ==
    [raised |-> FALSE, status |-> status, json_ok |-> json_ok, body |-> body]

ArrayCloseItems ==
    << <<<<"2", "0", "2", "0", "-", "0", "1", "-", "0", "2">>,
         <<Open900, <<"4. close", JArr>>>> >> >>

BadKeyItems ==
    << <<<<"2", "0", "2", "0", "/", "0", "1", "/", "0", "5">>,
         <<Open900, <<"4. close", JNum(300)>>>> >> >>

\* What the request can come to: the API is outside the program.
Responses ==
    { [raised |-> TRUE, status |-> 0, json_ok |-> FALSE, body |-> <<>>],
      Http(500, FALSE, <<>>),
      Http(200, FALSE, <<>>),
      Http(200, TRUE, << <<"Error Message", JStr(<<"x">>)>> >>),
      Http(200, TRUE, << <<"Note", JStr(<<"x">>)>> >>),
      Http(200, TRUE, << <<"Note", JStr(<<"x">>)>>, <<"Time Series (Daily)", SampleItems>> >>),
      Http(200, TRUE, << <<"Information", JStr(<<"x">>)>> >>) }
    \cup { Http(200, TRUE, Response(k, s)) :
             k \in SeriesKeys, s \in {SampleItems, ArrayCloseItems, BadKeyItems, <<>>} }

\* chart.render(): pygal is outside the program; what it returns is one of these.
RenderedSvgs == { <<"<svg>", "<g>", "t", "</g>", "</svg>">>, <<"<svg>", "<g>", "t">> }

Init ==
    /\ pc = "input"
    /\ stock_symbol = <<>> /\ chart_type = <<>> /\ time_series = <<>>
    /\ start_date = <<>> /\ end_date = <<>>
    /\ net = NoResponse /\ fn = "" /\ data = <<>> /\ series_key = <<>> /\ rows = <<>>
    /\ range = <<>> /\ chart = <<>> /\ html_text = <<>> /\ events = <<>>
    /\ arg = <<>> /\ ret = <<>>

Printed(msg) == <<"print", msg>>

\* except Exception: SystemExit is not an Exception and ends the process.
Caught(e) == e # "SystemExit"

\* How a raise inside the try block of main ends the run.
Raised(r) ==
    IF Caught(r.exc)
    THEN /\ pc' = "done"
         /\ events' = events \o [i \in 1..Len(r.out) |-> Printed(r.out[i])]
                             \o <<Printed("Something went wrong:")>>
    ELSE /\ pc' = "exit"
         /\ events' = events \o [i \in 1..Len(r.out) |-> Printed(r.out[i])]

\* main's "if not rows"
NoRows(rs) == rs = <<>>

ReadInputs ==
    /\ pc = "input"
    /\ \E sym \in SymbolInputs, ct \in ChartTypeInputs, ts \in TimeSeriesInputs,
          sd \in DateInputs, ed \in DateInputs :
         /\ stock_symbol' = upper(sym)
         /\ chart_type' = lower(ct)
         /\ time_series' = upper(ts)
         /\ start_date' = sd
         /\ end_date' = ed
    /\ pc' = "dates"
    /\ UNCHANGED <<net, fn, data, series_key, rows, range, chart, html_text, events, arg, ret>>

CheckDates ==
    /\ pc = "dates"
    /\ IF ~validate_date(start_date) \/ ~validate_date(end_date)
       THEN /\ events' = Append(events, Printed("Invalid date format. Please use YYYY-MM-DD."))
            /\ pc' = "done"
       ELSE /\ pc' = "order"
            /\ UNCHANGED events
    /\ UNCHANGED <<stock_symbol, chart_type, time_series, start_date, end_date, net, fn,
                   data, series_key, rows, range, chart, html_text, arg, ret>>

CheckOrder ==
    /\ pc = "order"
    /\ IF StrGt(start_date, end_date)
       THEN /\ events' = Append(events, Printed("Start date must be before end date."))
            /\ pc' = "done"
       ELSE /\ pc' = "chart_type"
            /\ UNCHANGED events
    /\ UNCHANGED <<stock_symbol, chart_type, time_series, start_date, end_date, net, fn,
                   data, series_key, rows, range, chart, html_text, arg, ret>>

CheckChartType ==
    /\ pc = "chart_type"
    /\ IF chart_type \notin { <<"l", "i", "n", "e">>, <<"b", "a", "r">> }
       THEN /\ events' = Append(events,
                            Printed("Invalid chart type. Please choose 'line' or 'bar'."))
            /\ pc' = "done"
       ELSE /\ pc' = "time_series"
            /\ UNCHANGED events
    /\ UNCHANGED <<stock_symbol, chart_type, time_series, start_date, end_date, net, fn,
                   data, series_key, rows, range, chart, html_text, arg, ret>>

CheckTimeSeries ==
    /\ pc = "time_series"
    /\ IF time_series \notin {DAILY, WEEKLY, MONTHLY}
       THEN /\ events' = Append(events,
                Printed("Invalid time series. Please choose 'daily', 'weekly', or 'monthly'."))
            /\ pc' = "done"
       ELSE /\ pc' = "function_for"
            /\ UNCHANGED events
    /\ UNCHANGED <<stock_symbol, chart_type, time_series, start_date, end_date, net, fn,
                   data, series_key, rows, range, chart, html_text, arg, ret>>

CallFunctionFor ==
    /\ pc = "function_for"
    /\ \E r \in {function_for(time_series)} :
           IF IsOk(r)
           THEN /\ fn' = Val(r)
                /\ pc' = "fetch"
                /\ UNCHANGED events
           ELSE /\ Raised(r)
                /\ UNCHANGED fn
    /\ UNCHANGED <<stock_symbol, chart_type, time_series, start_date, end_date, net,
                   data, series_key, rows, range, chart, html_text, arg, ret>>

\* fetch_data: the one GET, then the checks on what came back.
CallFetchData ==
    /\ pc = "fetch"
    /\ \E r \in Responses :
         /\ net' = r
         /\ \E got \in {fetch_data(r)},
               sent \in {<<"GET", [function |-> fn, symbol |-> stock_symbol]>>} :
                IF IsOk(got)
                THEN /\ data' = Val(got)
                     /\ pc' = "parse"
                     /\ events' = Append(events, sent)
                ELSE /\ UNCHANGED data
                     /\ IF Caught(got.exc)
                        THEN /\ pc' = "done"
                             /\ events' = events \o <<sent, Printed("Something went wrong:")>>
                        ELSE /\ pc' = "exit"
                             /\ events' = events \o <<sent, Printed(got.out[1])>>
    /\ UNCHANGED <<stock_symbol, chart_type, time_series, start_date, end_date, fn,
                   series_key, rows, range, chart, html_text, arg, ret>>

CallParseCloseSeries ==
    /\ pc = "parse"
    /\ \E k \in {series_key_for(fn)}, r \in {parse_close_series(data, fn)} :
           /\ series_key' = IF IsOk(k) THEN <<Val(k)>> ELSE <<>>
           /\ IF IsOk(r)
              THEN /\ rows' = Val(r)
                   /\ pc' = "filter"
                   /\ UNCHANGED events
              ELSE /\ Raised(r)
                   /\ UNCHANGED rows
    /\ UNCHANGED <<stock_symbol, chart_type, time_series, start_date, end_date, net, fn,
                   data, range, chart, html_text, arg, ret>>

CallFilterRange ==
    /\ pc = "filter"
    /\ \E s \in {to_date(start_date)}, e \in {to_date(end_date)} :
           IF IsOk(s) /\ IsOk(e)
           THEN /\ range' = <<Val(s), Val(e)>>
                /\ rows' = filter_range(rows, Val(s), Val(e))
                /\ pc' = "empty"
                /\ UNCHANGED events
           ELSE /\ Raised(IF IsOk(s) THEN e ELSE s)
                /\ UNCHANGED <<range, rows>>
    /\ UNCHANGED <<stock_symbol, chart_type, time_series, start_date, end_date, net, fn,
                   data, series_key, chart, html_text, arg, ret>>

CheckEmpty ==
    /\ pc = "empty"
    /\ IF NoRows(rows)
       THEN /\ events' = Append(events, Printed("No data in that date range."))
            /\ pc' = "done"
       ELSE /\ pc' = "make_chart"
            /\ UNCHANGED events
    /\ UNCHANGED <<stock_symbol, chart_type, time_series, start_date, end_date, net, fn,
                   data, series_key, rows, range, chart, html_text, arg, ret>>

\* make_chart: the labels and closes handed to pygal, and the text it renders.
CallMakeChart ==
    /\ pc = "make_chart"
    /\ \E svg \in RenderedSvgs :
       \E x_labels \in {[i \in 1..Len(rows) |-> strftime(rows[i][1])]} :
             chart' = [ kind |-> IF chart_type = <<"l", "i", "n", "e">> THEN "Line" ELSE "Bar",
                        title |-> stock_symbol \o <<" ", "EM DASH", " ">> \o title(time_series),
                        x_labels |-> x_labels,
                        x_labels_major |-> thin_labels(x_labels, DefaultMaxLabels),
                        closes |-> [i \in 1..Len(rows) |-> rows[i][2]],
                        svg |-> svg ]
    /\ pc' = "wrap_html"
    /\ UNCHANGED <<stock_symbol, chart_type, time_series, start_date, end_date, net, fn,
                   data, series_key, rows, range, html_text, events, arg, ret>>

CallWrapHtml ==
    /\ pc = "wrap_html"
    /\ \E page_title \in {stock_symbol \o <<" ", "EM DASH", " ">> \o title(time_series)
                            \o <<" ", "EM DASH", " ">> \o start_date \o <<" to ">> \o end_date} :
         \E r \in {wrap_html(chart.svg, page_title)} :
           IF IsOk(r)
           THEN /\ html_text' = Val(r)
                /\ pc' = "save"
                /\ UNCHANGED events
           ELSE /\ Raised(r)
                /\ UNCHANGED html_text
    /\ UNCHANGED <<stock_symbol, chart_type, time_series, start_date, end_date, net, fn,
                   data, series_key, rows, range, chart, arg, ret>>

\* save_and_open, then the last print: open() for writing can fail with an OSError.
CallSaveAndOpen ==
    /\ pc = "save"
    /\ \E opened \in BOOLEAN :
         IF opened
         THEN /\ events' = events \o
                    << <<"write", [fname |-> stock_symbol \o <<"_chart.html">>,
                                   text |-> html_text]>>,
                       <<"open", stock_symbol \o <<"_chart.html">>>>,
                       Printed("Chart generated and opened in your browser.") >>
              /\ pc' = "done"
         ELSE Raised(Raise("OSError"))
    /\ UNCHANGED <<stock_symbol, chart_type, time_series, start_date, end_date, net, fn,
                   data, series_key, rows, range, chart, html_text, arg, ret>>

Next ==
    \/ ReadInputs
    \/ CheckDates
    \/ CheckOrder
    \/ CheckChartType
    \/ CheckTimeSeries
    \/ CallFunctionFor
    \/ CallFetchData
    \/ CallParseCloseSeries
    \/ CallFilterRange
    \/ CheckEmpty
    \/ CallMakeChart
    \/ CallWrapHtml
    \/ CallSaveAndOpen

Spec == Init /\ [][Next]_vars


Granularities == {DAILY, WEEKLY, MONTHLY}

\* The provider function and the response key that go with a granularity.
ProviderFunctionOf(ts) ==
    CASE ts = DAILY -> "TIME_SERIES_DAILY"
      [] ts = WEEKLY -> "TIME_SERIES_WEEKLY"
      [] ts = MONTHLY -> "TIME_SERIES_MONTHLY"

ResponseKeyOf(ts) ==
    CASE ts = DAILY -> "Time Series (Daily)"
      [] ts = WEEKLY -> "Weekly Time Series"
      [] ts = MONTHLY -> "Monthly Time Series"

EventsAt(kind) == {i \in 1..Len(events) : events[i][1] = kind}

\* The run printed something other than its closing line.
FailurePrinted ==
    \E i \in EventsAt("print") :
        events[i][2] # "Chart generated and opened in your browser."

\* C1: the chart file is written (and the browser opened) at most once, and only
\* after the dates validated, the order, chart type and granularity were accepted,
\* the fetch gave status 200 without 'Error Message' or 'Note', the granularity's
\* key was in the response and the filtered series was not empty; a run that
\* failed has ended and has written nothing.
C1_ChartOnlyAfterAllChecks ==
    /\ Cardinality(EventsAt("write")) <= 1
    /\ Cardinality(EventsAt("open")) <= 1
    /\ EventsAt("write") \cup EventsAt("open") # {} =>
         /\ validate_date(start_date) /\ validate_date(end_date)
         /\ ~StrGt(start_date, end_date)
         /\ chart_type \in { <<"l", "i", "n", "e">>, <<"b", "a", "r">> }
         /\ time_series \in Granularities
         /\ ~net.raised /\ net.status = 200 /\ net.json_ok
         /\ ~DictHas(net.body, "Error Message") /\ ~DictHas(net.body, "Note")
         /\ DictHas(net.body, ResponseKeyOf(time_series))
         /\ rows # <<>>
         /\ \A w \in EventsAt("write") :
              /\ \E g \in EventsAt("GET") : g < w
              /\ events[w][2].fname = stock_symbol \o <<"_chart.html">>
         /\ \A o \in EventsAt("open") : \E w \in EventsAt("write") : w < o
    /\ (FailurePrinted \/ pc = "exit") =>
         /\ pc \in {"done", "exit"}
         /\ EventsAt("write") = {} /\ EventsAt("open") = {}

\* A run wrote the chart file.
C1_Witness == pc = "done" /\ EventsAt("write") # {}

\* C2: when both dates validate and the start date is after the end date, main
\* makes no network call, so the range given to filter_range has start <= end.
C2_StartAfterEndAborts ==
    /\ ( /\ pc # "input"
         /\ validate_date(start_date) /\ validate_date(end_date)
         /\ TupleLt(Val(to_date(end_date)), Val(to_date(start_date))) )
       => EventsAt("GET") = {}
    /\ range # <<>> => ~TupleLt(range[2], range[1])

\* C3: a network call is made only for DAILY, WEEKLY or MONTHLY, with the provider
\* function of that granularity, and parse_close_series looks up the response key of
\* that granularity; any other granularity ends the run with no network call.
C3_GranularityPair ==
    /\ \A g \in EventsAt("GET") :
         /\ time_series \in Granularities
         /\ events[g][2].function = ProviderFunctionOf(time_series)
    /\ series_key # <<>> =>
         /\ time_series \in Granularities
         /\ series_key[1] = ResponseKeyOf(time_series)
    /\ (pc \in {"done", "exit"} /\ time_series \notin Granularities) =>
         /\ EventsAt("GET") = {}
         /\ FailurePrinted

\* The weekly series was fetched and its key looked up.
C3_Witness ==
    /\ time_series = WEEKLY
    /\ EventsAt("GET") # {}
    /\ series_key = <<"Weekly Time Series">>

====
